---------------------------- MODULE Spec2Model ----------------------------
(***************************************************************************)
(* Sliding-window segmentation inference of isaid_eval.py:                 *)
(* SegmSlidingWinInference plans windows (patch), runs the model window by *)
(* window (forward / _forward) and averages the overlapping predictions    *)
(* (merge).  Tensors are float32: sums and counts are rounded as float32   *)
(* rounds them, on the non-negative integer-valued floats the model draws. *)
(***************************************************************************)
EXTENDS Integers, Sequences, FiniteSets, TLC

VARIABLES
    wins,        \* self.wins: [is, list], is "unset" (attribute never assigned), "None" or
                 \* "list", and then list the sequence of windows
    transforms,  \* self.transforms: "unset", "None" or "image_trans"
    _h,          \* self._h: the image height of the last forward, 0 for None
    _w,          \* self._w: the image width of the last forward, 0 for None
    pc,          \* where the engine is: "idle" (between calls), "loop" (top of the for),
                 \* "cache" (before empty_cache), "done" (a call is returning or raising)
    idx,         \* 1-based position of the for loop of _forward in self.wins
    out_list,    \* the local out_list of _forward: sequence of <<pred, win>>
    call,        \* arguments of the forward in progress: [model, shape, size_divisor],
                 \* shape the height and width of image_np
    modelCalls,  \* number of model(image) invocations made by the current / last forward
    cacheCalls,  \* number of torch.cuda.empty_cache() calls made by the current / last forward
    res_img,     \* the local res_img of the last merge (<<>> when there is none)
    res_count,   \* the local res_count of the last merge (<<>> when there is none)
    result,      \* what the last call returned: [kind, v], kind "none", "self" (patch) or
                 \* "tensor", and then v the merged tensor
    error,       \* the exception the last call raised, "none" if it returned
    lastOp,      \* the last step taken
    gapAsked,    \* the patch call that is returning was given a stride larger than the
                 \* patch length on an axis the patch does not span
    failed,      \* the call before the current one was a forward that raised in its loop
    reused,      \* some earlier forward of this engine has returned a merged tensor
    plan         \* arguments of the patch call that produced self.wins, kept through the
                 \* call that consumes them: [size, patch, stride]

vars == <<wins, transforms, _h, _w, pc, idx, out_list, call, modelCalls, cacheCalls,
          res_img, res_count, result, error, lastOp, gapAsked, failed, reused,
          plan>>

-----------------------------------------------------------------------------
(* Bounds and inputs *)

MaxDim == 2          \* image heights and widths, patch lengths and strides: 1..MaxDim
NumClasses == 2      \* channels of the model output
MaxPermLen == 4      \* lists up to this length are tried in every order

Chans == 1..NumClasses
Dims == 1..MaxDim

\* the concrete scenario of the specification
ScenarioCfg == [size |-> <<10, 10>>, patch |-> <<6, 6>>, stride |-> 4]
\* one row, three windows of width 3 at stride 1: the middle pixel lies in all three
TripleCfg == [size |-> <<1, 5>>, patch |-> <<1, 3>>, stride |-> 1]

\* neither axis a multiple of the stride: the last window of each is clamped
ClampCfg == [size |-> <<3, 4>>, patch |-> <<2, 3>>, stride |-> 2]

\* both axes multiples of the stride, the patch as long as the stride
TileCfg == [size |-> <<4, 6>>, patch |-> <<2, 2>>, stride |-> 2]

Configs ==
    {[size |-> <<h, w>>, patch |-> <<ph, pw>>, stride |-> s] :
        h \in Dims, w \in Dims, ph \in Dims, pw \in Dims, s \in Dims}
    \cup {ScenarioCfg, TripleCfg, ClampCfg, TileCfg}

\* the transforms handed to patch with cfg: the caller's pipeline, or None
TransformsFor(cfg) == IF cfg.stride = 1 THEN {"None", "image_trans"} ELSE {"image_trans"}

\* the images handed to forward after planning for size: one of that size and
\* a taller one
ShapesFor(size) == {size, <<size[1] + 1, size[2]>>}

Min(a, b) == IF a < b THEN a ELSE b
Max(a, b) == IF a > b THEN a ELSE b

-----------------------------------------------------------------------------
(* float32 on non-negative integer-valued floats *)

F32Mant == 16777216   \* 2^24: a float32 significand holds 24 bits

\* the spacing of float32 values at magnitude n
RECURSIVE F32Ulp(_)
F32Ulp(n) == IF n < F32Mant THEN 1 ELSE 2 * F32Ulp(n \div 2)

\* round-to-nearest, ties-to-even, of the exact integer n
F32Round(n) ==
    LET u == F32Ulp(n)
        q == n \div u
        r == n % u
    IN  IF 2 * r < u THEN q * u
        ELSE IF 2 * r > u THEN (q + 1) * u
        ELSE IF q % 2 = 0 THEN q * u ELSE (q + 1) * u

\* a += b on float32 tensors, elementwise
F32Add(a, b) == F32Round(a + b)

\* The float32 quotient s / k of a float32 s by a float32 count k, as
\* <<m, e>> meaning m * 2^e with 2^23 <= m < 2^24, or <<0, 0>>, F32NaN, F32Inf.
F32NaN == <<-1, 0>>
F32Inf == <<-2, 0>>

RECURSIVE F32QuotUp(_, _, _, _)
F32QuotUp(q, r, e, k) ==
    IF q >= F32Mant THEN <<q, r # 0, e>>
    ELSE IF q < 65536
    THEN \* eight quotient bits at once: they cannot reach 2^24 from below 2^16
         F32QuotUp(256 * q + ((256 * r) \div k), (256 * r) % k, e - 8, k)
    ELSE F32QuotUp(2 * q + (IF 2 * r >= k THEN 1 ELSE 0), (2 * r) % k, e - 1, k)

RECURSIVE F32QuotDown(_, _, _)
F32QuotDown(q, sticky, e) ==
    IF q < 2 * F32Mant THEN <<q, sticky, e>>
    ELSE F32QuotDown(q \div 2, sticky \/ (q % 2 = 1), e + 1)

F32Div(s, k) ==
    IF k = 0 THEN (IF s = 0 THEN F32NaN ELSE F32Inf)
    ELSE IF s = 0 THEN <<0, 0>>
    ELSE
        LET q0 == s \div k
            t  == IF q0 >= 2 * F32Mant THEN F32QuotDown(q0, (s % k) # 0, 0)
                  ELSE F32QuotUp(q0, s % k, 0, k)
            \* t[1] holds 25 bits: 24 of significand and the round bit
            m  == t[1] \div 2
            up == (t[1] % 2 = 1) /\ (t[2] \/ (m % 2 = 1))
            m1 == IF up THEN m + 1 ELSE m
        IN  IF m1 = F32Mant THEN <<F32Mant \div 2, t[3] + 2>> ELSE <<m1, t[3] + 1>>

\* the float32 value of the integer-valued float n, in the form F32Div returns
F32Of(n) == F32Div(n, 1)

-----------------------------------------------------------------------------
(* sliding_window of simplecv.data.preprocess: the window planner.  Its     *)
(* code is not part of the sources; it is modelled from section 4.1 of the  *)
(* specification.                                                           *)

\* candidate starts start, start + s, ... while start + patch <= dim
RECURSIVE AxisCandidates(_, _, _, _)
AxisCandidates(start, dim, patch, s) ==
    IF start + patch > dim THEN <<>>
    ELSE <<start>> \o AxisCandidates(start + s, dim, patch, s)

\* the window starts on one axis
AxisStarts(dim, patch, s) ==
    IF patch >= dim THEN <<0>>
    ELSE LET c == AxisCandidates(0, dim, patch, s)
         IN  IF c[Len(c)] + patch = dim THEN c ELSE Append(c, dim - patch)

\* the window length on one axis: the patch, clipped to the axis
AxisExtent(dim, patch) == Min(patch, dim)

\* a stride larger than the patch on an axis the patch does not span
GeometryRejected(input_size, patch_size, stride) ==
    \E a \in 1..2 : stride > patch_size[a] /\ patch_size[a] < input_size[a]

\* the windows <<x1, y1, x2, y2>>, in row-major order
PlanWindows(input_size, patch_size, stride) ==
        LET ys == AxisStarts(input_size[1], patch_size[1], stride)
            xs == AxisStarts(input_size[2], patch_size[2], stride)
            eh == AxisExtent(input_size[1], patch_size[1])
            ew == AxisExtent(input_size[2], patch_size[2])
            nx == Len(xs)
        IN  [n \in 1..(Len(ys) * nx) |->
                LET y == ys[((n - 1) \div nx) + 1]
                    x == xs[((n - 1) % nx) + 1]
                IN  <<x, y, x + ew, y + eh>>]

\* [error, wins]: the error raised, or "none" and the windows
sliding_window(input_size, patch_size, stride) ==
    IF GeometryRejected(input_size, patch_size, stride)
    THEN [error |-> "ConfigurationError", wins |-> <<>>]
    ELSE [error |-> "none", wins |-> PlanWindows(input_size, patch_size, stride)]

-----------------------------------------------------------------------------
(* The model, an opaque function of the transformed patch.  Its output is   *)
(* drawn from three families; channel ch carries ch times the base value.   *)

\* 16774218, a float32 c for which fl(fl(fl(c + c) + c) / 3) # c
BigVal == F32Mant - 2998

Models ==
    {[kind |-> "const", c |-> c] : c \in {3, BigVal}}
    \cup {[kind |-> "local", c |-> 0], [kind |-> "pixel", c |-> 0]}

\* size_divisor: 0 for None
SizeDivisors == {0, 2}

\* the (model, size_divisor) handed to forward: every model without padding,
\* and one with it
Runs ==
    {[model |-> m, size_divisor |-> 0] : m \in Models}
    \cup {[model |-> m, size_divisor |-> d] :
              m \in {n \in Models : n.kind = "pixel"}, d \in SizeDivisors}

\* base value of the output at local position (j, i) of the patch cut at win
ModelBase(model, win, j, i) ==
    CASE model.kind = "const" -> model.c
      [] model.kind = "local" -> IF i = 0 /\ j = 0 THEN F32Mant ELSE 1
      [] model.kind = "pixel" -> 1 + (win[1] + i) + 16 * (win[2] + j)

\* model(image) on an input of spatial shape hp x wp: a tensor (1, C, hp, wp)
ModelOut(model, win, hp, wp) ==
    [p \in Chans \X (0..(hp - 1)) \X (0..(wp - 1)) |->
        F32Round(p[1] * ModelBase(model, win, p[2], p[3]))]

\* sc.preprocess.function.th_divisible_pad: the next multiple of size_divisor
th_divisible_pad(n, size_divisor) == ((n + size_divisor - 1) \div size_divisor) * size_divisor

\* length of the Python slice a:b of an axis of length n (0 <= a)
SliceLen(a, b, n) == Max(0, Min(b, n) - Min(a, n))

\* one pass of the loop body of _forward, lines 61-73: crop, (transform,)
\* pad, model, crop back; the prediction is [h, w, v]
Predict(model, win, h, w, size_divisor) ==
    LET ch == SliceLen(win[2], win[4], h)
        cw == SliceLen(win[1], win[3], w)
        hp == IF size_divisor = 0 THEN ch ELSE th_divisible_pad(ch, size_divisor)
        wp == IF size_divisor = 0 THEN cw ELSE th_divisible_pad(cw, size_divisor)
        out == ModelOut(model, win, hp, wp)
    IN  [h |-> ch, w |-> cw,
         v |-> [p \in Chans \X (0..(ch - 1)) \X (0..(cw - 1)) |-> out[p]]]

-----------------------------------------------------------------------------
(* merge *)

\* rows and columns of the slices win[1]:win[3] and win[0]:win[2]
SliceRows(win, h) == {y \in 0..(h - 1) : win[2] <= y /\ y < win[4]}
SliceCols(win, w) == {x \in 0..(w - 1) : win[1] <= x /\ x < win[3]}

\* res_count[win[1]:win[3], win[0]:win[2]] += 1, line 42
CountSliceAssign(cnt, win, h, w) ==
    [q \in DOMAIN cnt |->
        IF q[1] \in SliceRows(win, h) /\ q[2] \in SliceCols(win, w)
        THEN 1 ELSE cnt[q]]
CountSliceShort(cnt, win, h, w) ==
    [q \in DOMAIN cnt |->
        IF q[1] \in SliceRows(win, h) /\ q[2] \in SliceCols(win, w) /\ q[2] < win[3] - 1
        THEN F32Add(cnt[q], 1) ELSE cnt[q]]
CountSlice(cnt, win, h, w) ==
    [q \in DOMAIN cnt |->
        IF q[1] \in SliceRows(win, h) /\ q[2] \in SliceCols(win, w)
        THEN F32Add(cnt[q], 1) ELSE cnt[q]]

\* res_img[:, :, win[1]:win[3], win[0]:win[2]] += pred.cpu(), line 43
ImgSliceOverwrite(img, pred, win, h, w) ==
    [p \in DOMAIN img |->
        IF p[2] \in SliceRows(win, h) /\ p[3] \in SliceCols(win, w)
        THEN pred.v[<<p[1], p[2] - win[2], p[3] - win[1]>>]
        ELSE img[p]]
ImgSlice(img, pred, win, h, w) ==
    [p \in DOMAIN img |->
        IF p[2] \in SliceRows(win, h) /\ p[3] \in SliceCols(win, w)
        THEN F32Add(img[p], pred.v[<<p[1], p[2] - win[2], p[3] - win[1]>>])
        ELSE img[p]]

\* one pass of the loop of merge, lines 41-43
MergeStep(bufs, pair, h, w) ==
    [cnt |-> CountSlice(bufs.cnt, pair[2], h, w),
     img |-> ImgSlice(bufs.img, pair[1], pair[2], h, w)]

RECURSIVE MergeLoop(_, _, _, _, _)
MergeLoop(list, i, bufs, h, w) ==
    IF i > Len(list) THEN bufs
    ELSE MergeLoop(list, i + 1, MergeStep(bufs, list[i], h, w), h, w)

\* res_img and res_count after the loop of merge over list
MergeBuffersSkipFirst(list, h, w) ==
    MergeLoop(list, 2,
              [cnt |-> [q \in (0..(h - 1)) \X (0..(w - 1)) |-> 0],
               img |-> [p \in Chans \X (0..(h - 1)) \X (0..(w - 1)) |-> 0]],
              h, w)
MergeBuffers(list, h, w) ==
    MergeLoop(list, 1,
              [cnt |-> [q \in (0..(h - 1)) \X (0..(w - 1)) |-> 0],
               img |-> [p \in Chans \X (0..(h - 1)) \X (0..(w - 1)) |-> 0]],
              h, w)

\* avg_res_img = res_img / res_count, the count broadcast over the channels
Average(bufs) == [p \in DOMAIN bufs.img |-> F32Div(bufs.img[p], bufs.cnt[<<p[2], p[3]>>])]

\* merge(out_list): unpacking an empty out_list raises ValueError
mergeDropsLast(list, h, w) ==
    IF list = <<>> THEN [error |-> "ValueError", res_img |-> <<>>, res_count |-> <<>>, avg |-> <<>>]
    ELSE LET bufs == MergeBuffers(SubSeq(list, 1, Len(list) - 1), h, w)
         IN  [error |-> "none", res_img |-> bufs.img, res_count |-> bufs.cnt,
              avg |-> Average(bufs)]
merge(list, h, w) ==
    IF list = <<>> THEN [error |-> "ValueError", res_img |-> <<>>, res_count |-> <<>>, avg |-> <<>>]
    ELSE LET bufs == MergeBuffers(list, h, w)
         IN  [error |-> "none", res_img |-> bufs.img, res_count |-> bufs.cnt,
              avg |-> Average(bufs)]

-----------------------------------------------------------------------------
(* The engine *)

NoCall == [model |-> [kind |-> "none", c |-> 0], shape |-> <<0, 0>>, size_divisor |-> 0]
NoResult == [kind |-> "none", v |-> <<>>]
NoPlan == [size |-> <<0, 0>>, patch |-> <<0, 0>>, stride |-> 0]

Configured == wins.is = "list"

\* __init__, lines 19-23: self.wins and self.transforms are not assigned
Init ==
    /\ wins = [is |-> "unset", list |-> <<>>]
    /\ transforms = "unset"
    /\ _h = 0
    /\ _w = 0
    /\ pc = "idle"
    /\ idx = 0
    /\ out_list = <<>>
    /\ call = NoCall
    /\ modelCalls = 0
    /\ cacheCalls = 0
    /\ res_img = <<>>
    /\ res_count = <<>>
    /\ result = NoResult
    /\ error = "none"
    /\ lastOp = "init"
    /\ gapAsked = FALSE
    /\ failed = FALSE
    /\ reused = FALSE
    /\ plan = NoPlan

\* a call starts with no locals of an earlier one
NewCall == UNCHANGED <<out_list, modelCalls, cacheCalls, res_img, res_count>>

\* the call has returned or raised: its locals are gone and the caller holds
\* the outcome; the engine keeps self.wins, self.transforms, self._h, self._w
Return ==
    /\ pc = "done"
    /\ pc' = "idle"
    /\ idx' = 0
    /\ out_list' = <<>>
    /\ call' = NoCall
    /\ modelCalls' = 0
    /\ cacheCalls' = 0
    /\ res_img' = <<>>
    /\ res_count' = <<>>
    /\ result' = NoResult
    /\ error' = "none"
    /\ lastOp' = "return"
    /\ gapAsked' = FALSE
    /\ failed' = (lastOp = "raise")
    /\ reused' = (reused \/ (lastOp = "merge" /\ error = "none"))
    /\ plan' = IF Configured THEN plan ELSE NoPlan
    /\ UNCHANGED <<wins, transforms, _h, _w>>

\* the stride of cfg exceeds its patch length on an axis the patch does not span
StrideGap(cfg) == \E a \in 1..2 : cfg.stride > cfg.patch[a] /\ cfg.patch[a] < cfg.size[a]

\* lines 31-33 of patch, r being what sliding_window returned or raised
PatchWith(r, cfg, tr) ==
    /\ pc = "idle"
    /\ NewCall
    /\     IF r.error # "none"
           THEN /\ error' = r.error
                /\ result' = NoResult
                /\ UNCHANGED <<wins, transforms, plan>>
           ELSE /\ wins' = [is |-> "list", list |-> r.wins]
                /\ transforms' = tr
                /\ plan' = cfg
                /\ error' = "none"
                /\ result' = [kind |-> "self", v |-> <<>>]
    /\ lastOp' = "patch"
    /\ gapAsked' = StrideGap(cfg)
    /\ pc' = "done"
    /\ UNCHANGED <<_h, _w, idx, call, failed, reused>>

\* patch(input_size, patch_size, stride, transforms), lines 25-33
patchUnchecked(cfg, tr) ==
    PatchWith([error |-> "none", wins |-> PlanWindows(cfg.size, cfg.patch, cfg.stride)], cfg, tr)
patchSwapped(cfg, tr) == PatchWith(sliding_window(cfg.patch, cfg.size, cfg.stride), cfg, tr)
patchKeepsWins(cfg, tr) ==
    PatchWith(IF Configured THEN [error |-> "none", wins |-> wins.list]
              ELSE sliding_window(cfg.size, cfg.patch, cfg.stride), cfg, tr)
patch(cfg, tr) == PatchWith(sliding_window(cfg.size, cfg.patch, cfg.stride), cfg, tr)

\* forward(model, image_np, size_divisor=...), lines 49-53, and _forward up to
\* the for loop, lines 56-59
forward(model, shape, size_divisor) ==
    /\ pc = "idle"
    /\ NewCall
    /\ lastOp' = "forward"
    /\ result' = NoResult
    /\ IF wins.is = "unset"
       THEN /\ error' = "AttributeError"
            /\ pc' = "done"
            /\ UNCHANGED <<_h, _w, idx, call>>
       ELSE IF wins.is = "None"
       THEN /\ error' = "AssertionError"
            /\ pc' = "done"
            /\ UNCHANGED <<_h, _w, idx, call>>
       ELSE /\ _h' = shape[1]
            /\ _w' = shape[2]
            /\ call' = [model |-> model, shape |-> shape, size_divisor |-> size_divisor]
            /\ error' = "none"
            /\ idx' = 1
            /\ pc' = "loop"
    /\ UNCHANGED <<wins, transforms, gapAsked, failed, reused, plan>>

\* one pass of the for loop of _forward up to the append, lines 61-73
ForwardWindow ==
    /\ pc = "loop"
    /\ idx <= Len(wins.list)
    /\ out_list' = Append(out_list,
                          <<Predict(call.model, wins.list[idx], _h, _w, call.size_divisor),
                            wins.list[idx]>>)
    /\ modelCalls' = modelCalls + 1
    /\ pc' = "cache"
    /\ lastOp' = "model"
    /\ UNCHANGED <<wins, transforms, _h, _w, idx, call, cacheCalls, res_img, res_count,
                   result, error, gapAsked, failed, reused, plan>>

\* the transform (line 64) or the model (line 70) raises and the call ends,
\* leaving w in self.wins
RaiseWith(cause, w) ==
    /\ pc = "loop"
    /\ wins' = w
    /\ idx <= Len(wins.list)
    /\ cause = "transform" => transforms # "None"
    /\ modelCalls' = IF cause = "model" THEN modelCalls + 1 ELSE modelCalls
    /\ error' = IF cause = "model" THEN "ModelError" ELSE "TransformError"
    /\ result' = NoResult
    /\ pc' = "done"
    /\ lastOp' = "raise"
    /\ UNCHANGED <<transforms, _h, _w, idx, out_list, call, cacheCalls, res_img,
                   res_count, gapAsked, failed, reused, plan>>

\* nothing in _forward catches what the transform or the model raises: line 75
\* is not reached
ForwardRaisesClears(cause) == RaiseWith(cause, [is |-> "None", list |-> <<>>])
ForwardRaises(cause) == RaiseWith(cause, wins)

\* torch.cuda.empty_cache(), line 74, and the step of the for loop
EmptyCacheSkips ==
    /\ pc = "cache"
    /\ cacheCalls' = cacheCalls + 1
    /\ idx' = idx + 2
    /\ pc' = "loop"
    /\ lastOp' = "empty_cache"
    /\ UNCHANGED <<wins, transforms, _h, _w, out_list, call, modelCalls, res_img, res_count,
                   result, error, gapAsked, failed, reused, plan>>
EmptyCache ==
    /\ pc = "cache"
    /\ cacheCalls' = cacheCalls + 1
    /\ idx' = idx + 1
    /\ pc' = "loop"
    /\ lastOp' = "empty_cache"
    /\ UNCHANGED <<wins, transforms, _h, _w, out_list, call, modelCalls, res_img, res_count,
                   result, error, gapAsked, failed, reused, plan>>

\* the loop is exhausted: self.wins = w and return self.merge(out_list)
FinishWith(w) ==
    /\ pc = "loop"
    /\ idx > Len(wins.list)
    /\ wins' = w
    /\ LET m == merge(out_list, _h, _w)
       IN  IF m.error # "none"
           THEN /\ error' = m.error
                /\ result' = NoResult
                /\ UNCHANGED <<res_img, res_count>>
           ELSE /\ error' = "none"
                /\ result' = [kind |-> "tensor", v |-> m.avg]
                /\ res_img' = m.res_img
                /\ res_count' = m.res_count
    /\ pc' = "done"
    /\ lastOp' = "merge"
    /\ UNCHANGED <<transforms, _h, _w, idx, out_list, call, modelCalls, cacheCalls,
                   gapAsked, failed, reused, plan>>

\* the end of _forward, lines 75-77: self.wins = None, then the merge
ForwardMergeKeepsWins == FinishWith(wins)
ForwardMerge == FinishWith([is |-> "None", list |-> <<>>])

Next ==
    \/ \E cfg \in Configs : \E tr \in TransformsFor(cfg) : patch(cfg, tr)
    \/ \E run \in Runs, shape \in ShapesFor(plan.size) :
          forward(run.model, shape, run.size_divisor)
    \/ ForwardWindow
    \/ \E cause \in {"transform", "model"} : ForwardRaises(cause)
    \/ EmptyCache
    \/ ForwardMerge
    \/ Return

Spec == Init /\ [][Next]_vars

-----------------------------------------------------------------------------
(* Properties *)

InWin(win, x, y) == win[1] <= x /\ x < win[3] /\ win[2] <= y /\ y < win[4]

\* the windows of a sequence of windows that contain pixel (x, y)
Covering(list, x, y) == {n \in DOMAIN list : InWin(list[n], x, y)}

\* the call that is returning is a forward that merged, for an image of the planned size
Merged == pc = "done" /\ lastOp = "merge" /\ error = "none"
MergedAsPlanned == Merged /\ <<_h, _w>> = plan.size

\* the geometry the coverage property is stated for
CoveragePre(cfg) ==
    /\ cfg.patch[1] <= cfg.size[1]
    /\ cfg.patch[2] <= cfg.size[2]
    /\ 1 <= cfg.stride
    /\ cfg.stride <= Min(cfg.patch[1], cfg.patch[2])

\* C1: for H, W >= 1, patch <= H, W and 1 <= stride <= min(ph, pw), the
\* planned windows cover every pixel of [0,W) x [0,H), and after a run over
\* an image of that size every entry of the count buffer is >= 1.
CoverageHolds ==
    /\ (Configured /\ CoveragePre(plan)) =>
           \A y \in 0..(plan.size[1] - 1), x \in 0..(plan.size[2] - 1) :
               Covering(wins.list, x, y) # {}
    /\ (MergedAsPlanned /\ CoveragePre(plan)) =>
           \A q \in DOMAIN res_count : res_count[q] >= 1

\* a run over the clamped plan has merged, and some pixel was counted twice
CoverageWitness ==
    /\ MergedAsPlanned
    /\ plan = ClampCfg
    /\ CoveragePre(plan)
    /\ \E q \in DOMAIN res_count : res_count[q] >= 2

\* C2: every planned window lies inside the image and is non-empty; on each
\* axis its extent is the patch length when patch <= dim and the whole axis
\* [0, dim), as the only start, when patch >= dim; the last window of an axis
\* ends exactly at dim.
AxisGeometry(list, lo, hi, dim, len) ==
    /\ \A n \in DOMAIN list :
          /\ 0 <= list[n][lo] /\ list[n][lo] < list[n][hi] /\ list[n][hi] <= dim
          /\ len <= dim => list[n][hi] - list[n][lo] = len
          /\ len >= dim => list[n][lo] = 0 /\ list[n][hi] = dim
    /\ list[Len(list)][hi] = dim
    /\ list[Len(list)][lo] = Max(0, dim - len)
    /\ \A n \in DOMAIN list : list[n][lo] <= list[Len(list)][lo]

WindowGeometry ==
    Configured =>
        /\ Len(wins.list) >= 1
        /\ AxisGeometry(wins.list, 1, 3, plan.size[2], plan.patch[2])
        /\ AxisGeometry(wins.list, 2, 4, plan.size[1], plan.patch[1])

\* a plan whose last windows are clamped, and one whose patch exceeds the axis
WindowGeometryWitness ==
    /\ Configured
    /\ plan = ClampCfg
    /\ wins.list[Len(wins.list)] = <<1, 1, 4, 3>>

\* what the n-th pair of list contributes to channel ch of pixel (x, y)
Contribution(list, n, ch, y, x) ==
    list[n][1].v[<<ch, y - list[n][2][2], x - list[n][2][1]>>]

\* the windows of the pairs of list
WinsOf(list) == [n \in DOMAIN list |-> list[n][2]]

\* the contributions of the first n pairs to channel ch of pixel (x, y), added
\* exactly, and added in list order as float32 adds
RECURSIVE ExactSum(_, _, _, _, _)
ExactSum(list, n, ch, y, x) ==
    IF n = 0 THEN 0
    ELSE ExactSum(list, n - 1, ch, y, x)
         + (IF InWin(list[n][2], x, y) THEN Contribution(list, n, ch, y, x) ELSE 0)

RECURSIVE FloatSum(_, _, _, _, _)
FloatSum(list, n, ch, y, x) ==
    IF n = 0 THEN 0
    ELSE IF InWin(list[n][2], x, y)
         THEN F32Add(FloatSum(list, n - 1, ch, y, x), Contribution(list, n, ch, y, x))
         ELSE FloatSum(list, n - 1, ch, y, x)

\* the number of windows of the run that contain pixel q = <<y, x>>
Overlap(q) == Cardinality(Covering(WinsOf(out_list), q[2], q[1]))

\* C3 as claimed: the merged value of a pixel covered by k >= 1 windows is the
\* arithmetic mean of the k predictions there (as float32 holds it), and when
\* every prediction is the constant c the merged value is c.
OverlapAveragingExact ==
    Merged =>
        \A p \in DOMAIN result.v :
            LET k == Overlap(<<p[2], p[3]>>)
            IN  k >= 1 =>
                  /\ result.v[p] = F32Div(ExactSum(out_list, Len(out_list), p[1], p[2], p[3]), k)
                  /\ call.model.kind = "const" =>
                        result.v[p] = F32Of(F32Round(p[1] * call.model.c))

\* C3, amended: the count of a pixel is the number k of windows containing it;
\* the sum is the contributions added in window order with float32 rounding;
\* the merged value is the float32 quotient of that sum by k; and wherever the
\* float32 sum is exact, the merged value is the (float32) arithmetic mean, c
\* for constant predictions c.
OverlapAveraging ==
    Merged =>
        \A p \in DOMAIN result.v :
            LET k  == Overlap(<<p[2], p[3]>>)
                fs == FloatSum(out_list, Len(out_list), p[1], p[2], p[3])
                es == ExactSum(out_list, Len(out_list), p[1], p[2], p[3])
            IN  /\ res_count[<<p[2], p[3]>>] = k
                /\ res_img[p] = fs
                /\ k >= 1 =>
                      /\ result.v[p] = F32Div(fs, k)
                      /\ fs = es => result.v[p] = F32Div(es, k)
                      /\ (fs = es /\ call.model.kind = "const") =>
                            result.v[p] = F32Of(F32Round(p[1] * call.model.c))

\* the scenario has merged constant predictions: four windows meet at (4, 4)
\* and the merged value there is the constant
OverlapAveragingWitness ==
    /\ MergedAsPlanned
    /\ plan = ScenarioCfg
    /\ call.model = [kind |-> "const", c |-> BigVal]
    /\ res_count[<<4, 4>>] = 4
    /\ result.v[<<1, 4, 4>>] = F32Of(BigVal)
    /\ result.v[<<1, 0, 0>>] = F32Of(BigVal)

\* the orders a list of n pairs is fed in: every permutation of a short list;
\* of a longer one every exchange of two pairs and every rotation
Perms(n) ==
    IF n <= MaxPermLen
    THEN {f \in [1..n -> 1..n] : \A i, j \in 1..n : f[i] = f[j] => i = j}
    ELSE {[m \in 1..n |-> IF m = i THEN j ELSE IF m = j THEN i ELSE m] : i, j \in 1..n}
         \cup {[m \in 1..n |-> ((m + r - 1) % n) + 1] : r \in 1..n}

Permuted(list, f) == [n \in DOMAIN list |-> list[f[n]]]

Reversed(list) == [n \in DOMAIN list |-> list[Len(list) + 1 - n]]

\* C4 as claimed: the pairs of a run fed to merge in any order give the same
\* sum buffer, the same count buffer and the same merged result.
OrderIndependenceExact ==
    Merged =>
        \A f \in Perms(Len(out_list)) :
            LET b == MergeBuffers(Permuted(out_list, f), _h, _w)
            IN  /\ b.cnt = res_count
                /\ b.img = res_img
                /\ Average(b) = result.v

\* C4, amended: in any order the count buffer is the same, and the sum and the
\* merged value of every pixel that at most two windows contain are the same.
OrderIndependence ==
    Merged =>
        \A f \in Perms(Len(out_list)) :
            LET b == MergeBuffers(Permuted(out_list, f), _h, _w)
                a == Average(b)
            IN  /\ b.cnt = res_count
                /\ \A p \in DOMAIN res_img :
                      res_count[<<p[2], p[3]>>] <= 2 =>
                          b.img[p] = res_img[p] /\ a[p] = result.v[p]

\* the scenario has merged predictions that differ between the windows: fed
\* in reverse the sums of the bands agree and the sum of the centre does not
OrderIndependenceWitness ==
    /\ MergedAsPlanned
    /\ plan = ScenarioCfg
    /\ call.model.kind = "local"
    /\ LET b == MergeBuffers(Reversed(out_list), _h, _w)
       IN  /\ res_count[<<0, 4>>] = 2
           /\ b.img[<<1, 0, 4>>] = res_img[<<1, 0, 4>>]
           /\ res_count[<<4, 4>>] = 4
           /\ b.img[<<1, 4, 4>>] # res_img[<<1, 4, 4>>]

\* C5: a forward is accepted only when configured; on an engine never planned,
\* and on one whose windows a run has consumed, it raises without invoking the
\* model; a run that merges clears the windows; only a patch that returns
\* makes the engine configured.
LifecycleStep ==
    /\ (pc = "idle" /\ lastOp' = "forward") =>
          IF Configured
          THEN pc' = "loop" /\ error' = "none"
          ELSE /\ pc' = "done"
               /\ error' = (IF wins.is = "unset" THEN "AttributeError" ELSE "AssertionError")
               /\ result' = NoResult
               /\ modelCalls' = 0
               /\ wins' = wins
    /\ (pc = "loop" /\ lastOp' = "merge") => ~Configured'
    /\ (~Configured /\ Configured') => (lastOp' = "patch" /\ error' = "none")

ZeroCountDetected ==
    (pc = "done" /\ lastOp = "merge") =>
        /\ (\E q \in DOMAIN res_count : res_count[q] = 0) =>
               (error # "none" /\ result.kind = "none")
        /\ result.kind = "tensor" =>
               \A p \in DOMAIN result.v : result.v[p] \notin {F32NaN, F32Inf}

FailureStepExact ==
    /\ (pc = "loop" /\ lastOp' = "raise") =>
          /\ pc' = "done"
          /\ error' \in {"TransformError", "ModelError"}
          /\ result' = NoResult
    /\ (pc = "idle" /\ failed /\ lastOp' = "forward") =>
          (pc' = "done" /\ error' # "none")

FailureRequiresReplan == [][FailureStepExact]_vars

\* C8, amended: when the transform or the model raises, the forward ends with
\* that error and no result, and the engine keeps its windows: a forward issued
\* directly after it is accepted and starts again at the first of them.
FailureStep ==
    /\ (pc = "loop" /\ lastOp' = "raise") =>
          /\ pc' = "done"
          /\ error' \in {"TransformError", "ModelError"}
          /\ result' = NoResult
          /\ Configured'
          /\ wins' = wins
    /\ (pc = "done" /\ lastOp = "raise") => (wins' = wins /\ failed')
    /\ (pc = "idle" /\ failed /\ lastOp' = "forward") =>
          /\ pc' = "loop"
          /\ error' = "none"
          /\ idx' = 1
          /\ out_list' = <<>>
          /\ modelCalls' = 0
          /\ wins' = wins
          /\ wins.list = PlanWindows(plan.size, plan.patch, plan.stride)

FailureKeepsPlan == [][FailureStep]_vars

\* a forward that follows one that raised at the second window is in its loop
FailureKeepsPlanWitness ==
    /\ failed
    /\ pc = "loop"
    /\ idx = 1
    /\ lastOp = "forward"
    /\ Len(wins.list) >= 2

\* C9: with the stride equal to the patch length on both axes and H and W
\* multiples of it, there are (H / s) * (W / s) windows, the count is 1 at
\* every pixel, and the merged value of a pixel is the prediction there of the
\* one window that contains it.
TilePre(cfg) ==
    /\ cfg.stride >= 1
    /\ cfg.patch = <<cfg.stride, cfg.stride>>
    /\ cfg.size[1] % cfg.stride = 0
    /\ cfg.size[2] % cfg.stride = 0

NonOverlapExact ==
    (MergedAsPlanned /\ TilePre(plan)) =>
        /\ Len(out_list) = (plan.size[1] \div plan.stride) * (plan.size[2] \div plan.stride)
        /\ \A q \in DOMAIN res_count : res_count[q] = 1
        /\ \A p \in DOMAIN result.v :
              \E n \in DOMAIN out_list :
                  /\ Covering(WinsOf(out_list), p[3], p[2]) = {n}
                  /\ result.v[p] = F32Of(Contribution(out_list, n, p[1], p[2], p[3]))

\* six 2 x 2 tiles of a 4 x 6 image have merged predictions that differ from
\* pixel to pixel
NonOverlapExactWitness ==
    /\ MergedAsPlanned
    /\ plan = TileCfg
    /\ TilePre(plan)
    /\ call.model.kind = "pixel"
    /\ Len(out_list) = 6
    /\ result.v[<<1, 3, 5>>] = F32Of(1 + 5 + 16 * 3)

\* C10: for H = W = 10, patches 6 x 6 and stride 4 the windows are (0,0,6,6),
\* (4,0,10,6), (0,4,6,10), (4,4,10,10) in that order, and after the run the
\* count is 4 where x and y are both in [4,6), 2 where exactly one is, and 1
\* elsewhere.
ScenarioCount(q) ==
    LET my == q[1] \in 4..5
        mx == q[2] \in 4..5
    IN  IF my /\ mx THEN 4 ELSE IF my \/ mx THEN 2 ELSE 1

Scenario ==
    /\ (Configured /\ plan = ScenarioCfg) =>
          wins.list = << <<0, 0, 6, 6>>, <<4, 0, 10, 6>>, <<0, 4, 6, 10>>, <<4, 4, 10, 10>> >>
    /\ (MergedAsPlanned /\ plan = ScenarioCfg) =>
          /\ DOMAIN res_count = (0..9) \X (0..9)
          /\ \A q \in DOMAIN res_count : res_count[q] = ScenarioCount(q)

\* the scenario has merged
ScenarioWitness ==
    /\ MergedAsPlanned
    /\ plan = ScenarioCfg
    /\ Len(out_list) = 4
    /\ res_count[<<5, 4>>] = 4
    /\ res_count[<<5, 6>>] = 2
    /\ res_count[<<9, 9>>] = 1

\* C11: a run that merges a plan of n windows invokes the model exactly n
\* times, window by window in plan order and one at a time; every invocation
\* is followed by an empty_cache before the next invocation begins; the merge
\* comes only after the last window; and every window is added once to the
\* count and the sum, so the tensor returned is that of the planned windows.
ProtocolStep ==
    /\ (pc = "loop" /\ lastOp' = "model") =>
          /\ modelCalls = idx - 1
          /\ cacheCalls = modelCalls
          /\ modelCalls' = idx
          /\ Len(out_list) = idx - 1
          /\ out_list' = Append(out_list, out_list'[idx])
          /\ out_list'[idx][2] = wins.list[idx]
          /\ out_list'[idx][1] = Predict(call.model, out_list'[idx][2], _h, _w, call.size_divisor)
          /\ pc' = "cache"
    /\ pc = "cache" =>
          /\ modelCalls = cacheCalls + 1
          /\ lastOp' = "empty_cache"
          /\ cacheCalls' = modelCalls
          /\ modelCalls' = modelCalls
          /\ idx' = idx + 1
          /\ out_list' = out_list
    /\ (pc = "loop" /\ lastOp' = "merge" /\ error' = "none") =>
          LET planned == wins.list
          IN  /\ modelCalls = Len(planned)
              /\ cacheCalls = Len(planned)
              /\ lastOp = "empty_cache"
              /\ WinsOf(out_list) = planned
              /\ result'.kind = "tensor"
              /\ \A q \in DOMAIN res_count' :
                    res_count'[q] = Cardinality(Covering(planned, q[2], q[1]))
              /\ \A p \in DOMAIN res_img' :
                    res_img'[p] = FloatSum(out_list, Len(planned), p[1], p[2], p[3])
              /\ result'.v = Average([cnt |-> res_count', img |-> res_img'])

Protocol == [][ProtocolStep]_vars

\* the run over the six tiles has merged: six invocations, six releases, the
\* windows in plan order, each pixel counted once
ProtocolWitness ==
    /\ Merged
    /\ plan = TileCfg
    /\ modelCalls = 6
    /\ cacheCalls = 6
    /\ Len(out_list) = 6
    /\ out_list[2][2] = <<2, 0, 4, 2>>
    /\ \A q \in DOMAIN res_count : res_count[q] = 1

\* what an engine fresh from __init__ returns when it is given patch(cfg) and then
\* forward(model, image of the given shape, size_divisor): [error, res_img, res_count, avg]
FreshRun(cfg, shape, model, size_divisor) ==
    LET r    == sliding_window(cfg.size, cfg.patch, cfg.stride)
        list == [n \in DOMAIN r.wins |->
                    <<Predict(model, r.wins[n], shape[1], shape[2], size_divisor), r.wins[n]>>]
    IN  IF r.error # "none"
        THEN [error |-> r.error, res_img |-> <<>>, res_count |-> <<>>, avg |-> <<>>]
        ELSE merge(list, shape[1], shape[2])

=============================================================================
